---- MODULE Spec2Model ----
(***************************************************************************)
(* A model of dashboard.py: one run of the Streamlit script, from the       *)
(* uploaded file to the exported CSV.  The script is a straight pipeline:   *)
(*   upload -> read file -> detect columns -> clean -> sidebar filters ->   *)
(*   date filter -> KPIs -> charts -> export.                               *)
(* Text is modelled as a tuple of one-character strings, so that            *)
(* lower-casing, the similarity ratio, number parsing and date parsing are  *)
(* computed character by character.                                         *)
(***************************************************************************)
EXTENDS Integers, Sequences, FiniteSets, TLC

VARIABLES
    pc,             \* position of the run in the script
    fl,             \* the uploaded file (line 25)
    delimiter,      \* loop variable of line 35, as an index into Delimiters
    detected,       \* line 34
    df,             \* the DataFrame (lines 38/48, re-typed by lines 70-76)
    columns,        \* line 54
    date_col, sales_col, profit_col, product_col, region_col,
    state_col, city_col, retailer_col, quantity_col,       \* lines 56-64
    region, state, city,                                   \* lines 81-94
    filtered_df,    \* lines 96-117, 143
    startDate, endDate, date1, date2,                      \* lines 107-115
    total_sales, total_profit, total_units, total_orders,  \* lines 120-123
    charts,         \* the grouped tables handed to the charts (lines 134-177)
    csv             \* line 181

cols == <<date_col, sales_col, profit_col, product_col, region_col,
          state_col, city_col, retailer_col, quantity_col>>
sels == <<region, state, city>>
dates == <<startDate, endDate, date1, date2>>
kpis == <<total_sales, total_profit, total_units, total_orders>>
vars == <<pc, fl, delimiter, detected, df, columns, cols, sels, filtered_df,
          dates, kpis, charts, csv>>

(***************************************************************************)
(* Bounds of the model.                                                     *)
(***************************************************************************)
MaxHeaders == 2     \* longest header list of the resolver specification
MaxRows == 2        \* most rows of an uploaded table
MaxCells == 2       \* longest column of the cleaning specification

(***************************************************************************)
(* Text.                                                                    *)
(***************************************************************************)
LowerMap ==
    [A |-> "a", B |-> "b", C |-> "c", D |-> "d", E |-> "e", F |-> "f",
     G |-> "g", H |-> "h", I |-> "i", J |-> "j", K |-> "k", L |-> "l",
     M |-> "m", N |-> "n", O |-> "o", P |-> "p", Q |-> "q", R |-> "r",
     S |-> "s", T |-> "t", U |-> "u", V |-> "v", W |-> "w", X |-> "x",
     Y |-> "y", Z |-> "z"]

\* str.lower()
lower(s) ==
    [i \in 1..Len(s) |-> IF s[i] \in DOMAIN LowerMap THEN LowerMap[s[i]] ELSE s[i]]

\* Python's None, and the ValueError of max() on an empty sequence.  Neither
\* is a text: a text holds one-character strings only.
None == <<"None">>
ValueError == <<"ValueError">>

Max2(a, b) == IF a >= b THEN a ELSE b

(***************************************************************************)
(* fuzz.ratio (rapidfuzz): the normalised Indel similarity,                 *)
(*   100 * (1 - (|a| + |b| - 2 * LCS(a, b)) / (|a| + |b|)),                  *)
(* which is 100 for two empty texts.  It is kept as the exact fraction      *)
(* num / den, so that a score of exactly 60 is not blurred.                 *)
(***************************************************************************)
RECURSIVE LcsRow(_, _, _, _, _)
\* One row of the LCS table: prev is the row of the text read so far, acc the
\* part of the new row already filled (both start with the entry of column 0).
\* The test on the length is always true: it makes TLC compute the entry
\* before it goes on to the next one.
LcsRow(prev, ch, b, j, acc) ==
    IF j > Len(b) THEN acc
    ELSE LET row == Append(acc, IF ch = b[j] THEN prev[j] + 1
                                ELSE Max2(prev[j + 1], acc[j]))
         IN IF Len(row) = j + 1 THEN LcsRow(prev, ch, b, j + 1, row) ELSE row

RECURSIVE LcsRows(_, _, _, _)
LcsRows(a, b, i, prev) ==
    IF i > Len(a) THEN prev
    ELSE LET row == LcsRow(prev, a[i], b, 1, <<0>>)
         IN IF Len(row) = Len(prev) THEN LcsRows(a, b, i + 1, row) ELSE row

\* length of the longest common subsequence of a and b
Lcs(a, b) == LcsRows(a, b, 1, [j \in 1..(Len(b) + 1) |-> 0])[Len(b) + 1]

ratio(a, b) ==
    IF Len(a) + Len(b) = 0 THEN [num |-> 100, den |-> 1]
    ELSE [num |-> 200 * Lcs(a, b), den |-> Len(a) + Len(b)]

\* comparison of two scores, and of a score with a whole number
ScoreGt(x, y) == x.num * y.den > y.num * x.den
ScoreEq(x, y) == x.num * y.den = y.num * x.den
ScoreAbove(x, n) == x.num > n * x.den

\* the acceptance threshold of line 17
Threshold == 60

(***************************************************************************)
(* find_best_column (lines 11-17).                                          *)
(***************************************************************************)
RECURSIVE MaxScore(_, _, _, _)
\* max([fuzz.ratio(col.lower(), key.lower()) for key in possible_names]),
\* line 14; possible_names is never empty (lines 56-64)
MaxScore(col, possible_names, k, best) ==
    IF k > Len(possible_names) THEN best
    ELSE LET sc == ratio(lower(col), lower(possible_names[k]))
         IN MaxScore(col, possible_names, k + 1,
                     IF ScoreGt(sc, best) THEN sc ELSE best)

score(col, possible_names) ==
    MaxScore(col, possible_names, 2, ratio(lower(col), lower(possible_names[1])))

RECURSIVE BuildMatches(_, _, _, _)
\* the dict of lines 12-15, as the sequence of its items in insertion order:
\* a key met again keeps its place and takes the new value
BuildMatches(possible_names, column_list, i, matches) ==
    IF i > Len(column_list) THEN matches
    ELSE LET col == column_list[i]
             item == [key |-> col, value |-> score(col, possible_names)]
             at == {k \in 1..Len(matches) : matches[k].key = col}
         IN BuildMatches(possible_names, column_list, i + 1,
                         IF at = {} THEN Append(matches, item)
                         ELSE [k \in 1..Len(matches) |->
                                  IF k \in at THEN item ELSE matches[k]])

RECURSIVE ArgMax(_, _, _)
\* max(matches, key=matches.get), line 16: the first key, in iteration order,
\* whose value no other key's value exceeds
ArgMax(matches, k, best) ==
    IF k > Len(matches) THEN best
    ELSE ArgMax(matches, k + 1,
                IF ScoreGt(matches[k].value, best.value) THEN matches[k] ELSE best)

\* line 17 with >= for >
AcceptsAtLeast(sc) == sc.num >= Threshold * sc.den

\* line 17
Accepts(sc) == ScoreAbove(sc, Threshold)

find_best_column(possible_names, column_list) ==
    LET matches == BuildMatches(possible_names, column_list, 1, <<>>)
    IN IF matches = <<>> THEN ValueError     \* max() of an empty dict, line 16
       ELSE LET best_match == ArgMax(matches, 2, matches[1])
            IN IF Accepts(best_match.value) THEN best_match.key ELSE None

(***************************************************************************)
(* The candidate names of the nine roles (lines 56-64).                     *)
(***************************************************************************)
DateNames ==
    << <<"I","n","v","o","i","c","e","D","a","t","e">>,
       <<"O","r","d","e","r"," ","D","a","t","e">>,
       <<"D","a","t","e">> >>
SalesNames ==
    << <<"T","o","t","a","l","S","a","l","e","s">>, <<"S","a","l","e","s">> >>
ProfitNames ==
    << <<"O","p","e","r","a","t","i","n","g","P","r","o","f","i","t">>,
       <<"P","r","o","f","i","t">> >>
ProductNames ==
    << <<"P","r","o","d","u","c","t">>,
       <<"C","a","t","e","g","o","r","y">>,
       <<"P","r","o","d","u","c","t"," ","N","a","m","e">> >>
RegionNames == << <<"R","e","g","i","o","n">> >>
StateNames == << <<"S","t","a","t","e">> >>
CityNames == << <<"C","i","t","y">> >>
RetailerNames == << <<"R","e","t","a","i","l","e","r">> >>
QuantityNames ==
    << <<"U","n","i","t","s","S","o","l","d">>,
       <<"Q","u","a","n","t","i","t","y">> >>

\* the nine calls of lines 56-64, in their order
RoleNames ==
    <<DateNames, SalesNames, ProfitNames, ProductNames, RegionNames,
      StateNames, CityNames, RetailerNames, QuantityNames>>

\* `if date_col:` and the like: None and the empty text are both false
Bound(c) == c # None /\ c # <<>>

(***************************************************************************)
(* Cells.  A cell of a DataFrame is a text, a number, a timestamp or a      *)
(* missing value (NaN in an object or float column, NaT in a datetime       *)
(* column).  Numbers are held in hundredths, timestamps in minutes, with    *)
(* every month given 31 slots so that the order of timestamps is the order  *)
(* of the calendar.  A file's cells are texts or NaN.                       *)
(***************************************************************************)
StrCell(s) == [t |-> "str", s |-> s, n |-> 0]
NumCell(n) == [t |-> "num", s |-> <<>>, n |-> n]
TsCell(n) == [t |-> "ts", s |-> <<>>, n |-> n]
NaN == [t |-> "nan", s |-> <<>>, n |-> 0]
NaT == [t |-> "nat", s |-> <<>>, n |-> 0]

DigitChars == <<"0","1","2","3","4","5","6","7","8","9">>
IsDigit(c) == \E i \in 1..Len(DigitChars) : DigitChars[i] = c
DigitValue(c) == (CHOOSE i \in 1..Len(DigitChars) : DigitChars[i] = c) - 1
AllDigits(s) == \A i \in 1..Len(s) : IsDigit(s[i])

RECURSIVE ParseNat(_, _, _)
\* the value of a text of digits, read from the left
ParseNat(s, i, acc) ==
    IF i > Len(s) THEN acc ELSE ParseNat(s, i + 1, acc * 10 + DigitValue(s[i]))

RECURSIVE NatText(_)
\* the decimal digits of a natural number
NatText(n) ==
    IF n < 10 THEN <<DigitChars[n + 1]>>
    ELSE NatText(n \div 10) \o <<DigitChars[(n % 10) + 1]>>

RECURSIVE Pad(_, _)
\* a text of digits, zero-filled on the left to a width
Pad(s, width) == IF Len(s) >= width THEN s ELSE Pad(<<"0">> \o s, width)

MinutesPerDay == 24 * 60

IsLeap(y) == (y % 4 = 0 /\ y % 100 # 0) \/ y % 400 = 0
DaysInMonth(y, m) ==
    IF m = 2 THEN (IF IsLeap(y) THEN 29 ELSE 28)
    ELSE IF m \in {4, 6, 9, 11} THEN 30 ELSE 31

Timestamp(y, m, d, hh, mi) ==
    (((y * 12 + (m - 1)) * 31) + (d - 1)) * MinutesPerDay + hh * 60 + mi
YearOf(ts) == (ts \div (MinutesPerDay * 31)) \div 12
MonthOf(ts) == ((ts \div (MinutesPerDay * 31)) % 12) + 1
DayOf(ts) == ((ts \div MinutesPerDay) % 31) + 1
MinuteOfDay(ts) == ts % MinutesPerDay

\* pd.to_datetime(..., errors='coerce') on one text (line 70).  The texts of
\* the model are ISO dates, "YYYY-MM-DD" with an optional " HH:MM"; a text of
\* another shape, or one naming no calendar date, is NaT.
ParseDate(s) ==
    LET dateOk == /\ Len(s) \in {10, 16}
                  /\ AllDigits(SubSeq(s, 1, 4)) /\ s[5] = "-"
                  /\ AllDigits(SubSeq(s, 6, 7)) /\ s[8] = "-"
                  /\ AllDigits(SubSeq(s, 9, 10))
        timeOk == Len(s) = 10 \/
                  /\ s[11] = " " /\ AllDigits(SubSeq(s, 12, 13))
                  /\ s[14] = ":" /\ AllDigits(SubSeq(s, 15, 16))
    IN IF ~(dateOk /\ timeOk) THEN NaT
       ELSE LET y == ParseNat(SubSeq(s, 1, 4), 1, 0)
                m == ParseNat(SubSeq(s, 6, 7), 1, 0)
                d == ParseNat(SubSeq(s, 9, 10), 1, 0)
                hh == IF Len(s) = 10 THEN 0 ELSE ParseNat(SubSeq(s, 12, 13), 1, 0)
                mi == IF Len(s) = 10 THEN 0 ELSE ParseNat(SubSeq(s, 15, 16), 1, 0)
            IN IF m \in 1..12 /\ d >= 1 /\ d <= DaysInMonth(y, m)
                  /\ hh < 24 /\ mi < 60
               THEN TsCell(Timestamp(y, m, d, hh, mi))
               ELSE NaT

\* the text of a timestamp: the date, and the time when it is not midnight
FormatTs(ts) ==
    LET day == Pad(NatText(YearOf(ts)), 4) \o <<"-">> \o
               Pad(NatText(MonthOf(ts)), 2) \o <<"-">> \o
               Pad(NatText(DayOf(ts)), 2)
        mod == MinuteOfDay(ts)
    IN IF mod = 0 THEN day
       ELSE day \o <<" ">> \o Pad(NatText(mod \div 60), 2) \o <<":">> \o
            Pad(NatText(mod % 60), 2) \o <<":","0","0">>

\* the text of a number (Python's repr of a float): the whole part, a dot,
\* and the decimals without trailing zeros, at least one
FormatNumber(n) ==
    LET frac == n % 100
    IN NatText(n \div 100) \o <<".">> \o
       (IF frac % 10 = 0 THEN NatText(frac \div 10) ELSE Pad(NatText(frac), 2))

\* Series.astype(str) on one cell (line 75)
astype_str(c) ==
    CASE c.t = "str" -> c.s
      [] c.t = "num" -> FormatNumber(c.n)
      [] c.t = "ts" -> FormatTs(c.n)
      [] c.t = "nan" -> <<"n","a","n">>
      [] c.t = "nat" -> <<"N","a","T">>

\* .str.replace(ch, '') (line 75): every occurrence goes
Remove(s, ch) == SelectSeq(s, LAMBDA c : c # ch)

IsSpace(c) == c \in {" ", "\t"}
RECURSIVE LStrip(_)
LStrip(s) == IF s # <<>> /\ IsSpace(Head(s)) THEN LStrip(Tail(s)) ELSE s
RECURSIVE RStrip(_)
RStrip(s) ==
    IF s # <<>> /\ IsSpace(s[Len(s)]) THEN RStrip(SubSeq(s, 1, Len(s) - 1)) ELSE s
\* .str.strip() (line 75)
strip(s) == RStrip(LStrip(s))

\* pd.to_numeric(..., errors='coerce') on one text (line 76): digits with at
\* most one dot and at most two decimals are a number (a digit on one side
\* of the dot is enough), anything else is NaN
to_numeric(s) ==
    LET dots == {i \in 1..Len(s) : s[i] = "."}
        dot == IF dots = {} THEN Len(s) + 1 ELSE CHOOSE i \in dots : \A j \in dots : i <= j
        whole == SubSeq(s, 1, dot - 1)
        frac == SubSeq(s, dot + 1, Len(s))
    IN IF /\ Cardinality(dots) <= 1
          /\ AllDigits(whole) /\ AllDigits(frac)
          /\ Len(whole) + Len(frac) > 0 /\ Len(frac) <= 2
       THEN NumCell(ParseNat(whole, 1, 0) * 100
                    + (IF Len(frac) = 1 THEN 10 ELSE 1) * ParseNat(frac, 1, 0))
       ELSE NaN

\* line 76 without its .fillna(0)
fillnaNothing(c) == c

\* .fillna(0) (line 76)
fillna0(c) == IF c.t \in {"nan", "nat"} THEN NumCell(0) ELSE c

\* line 75 on one cell
CleanText(c) == strip(Remove(Remove(astype_str(c), ","), "$"))

\* lines 75-76 on one cell
CleanNumber(c) == fillna0(to_numeric(CleanText(c)))

\* the Timestamp of a number: nanoseconds after 1970-01-01, which round to
\* the midnight of that day
Epoch == TsCell(Timestamp(1970, 1, 1, 0, 0))

\* line 70 on one cell
CleanDate(c) ==
    CASE c.t = "str" -> ParseDate(c.s)
      [] c.t = "num" -> Epoch
      [] c.t = "ts" -> c
      [] OTHER -> NaT

(***************************************************************************)
(* Tables.  A DataFrame is its column labels and its rows, each row a       *)
(* tuple of cells in the order of the labels.  Labels are distinct: the     *)
(* readers rename a repeated header.                                        *)
(***************************************************************************)
Table(labels, dtypes, rows) == [columns |-> labels, dtypes |-> dtypes, rows |-> rows]
EmptyTable == Table(<<>>, <<>>, <<>>)

\* a table as a reader returns it: every column of dtype object
RawTable(labels, rows) == Table(labels, [k \in 1..Len(labels) |-> "object"], rows)

\* the place of a label among the columns
ColumnIndex(t, col) == CHOOSE k \in 1..Len(t.columns) : t.columns[k] = col
HasColumn(t, col) == \E k \in 1..Len(t.columns) : t.columns[k] = col

\* df[col], as the tuple of its cells, and its dtype
Column(t, col) ==
    LET k == ColumnIndex(t, col) IN [r \in 1..Len(t.rows) |-> t.rows[r][k]]
DType(t, col) == t.dtypes[ColumnIndex(t, col)]

\* df[col] = values: a new label is appended, a known one is overwritten
SetColumn(t, col, dtype, values) ==
    IF HasColumn(t, col)
    THEN LET k == ColumnIndex(t, col)
         IN Table(t.columns,
                  [j \in 1..Len(t.columns) |-> IF j = k THEN dtype ELSE t.dtypes[j]],
                  [r \in 1..Len(t.rows) |->
                      [j \in 1..Len(t.columns) |->
                          IF j = k THEN values[r] ELSE t.rows[r][j]]])
    ELSE Table(Append(t.columns, col), Append(t.dtypes, dtype),
               [r \in 1..Len(t.rows) |-> Append(t.rows[r], values[r])])

\* df[col] = f(df[col]), cell by cell, the column taking the result's dtype
MapColumn(t, col, dtype, F(_)) ==
    LET old == Column(t, col)
    IN SetColumn(t, col, dtype, [r \in 1..Len(old) |-> F(old[r])])

\* df[mask]: the rows that satisfy Keep, in their order
Where(t, Keep(_)) == Table(t.columns, t.dtypes, SelectSeq(t.rows, Keep))

(***************************************************************************)
(* The uploaded file.  A file is what the readers make of it: its name's    *)
(* kind and, for each read the script may attempt, whether the read raises  *)
(* and the table it returns otherwise.  A delimited file has one attempt    *)
(* per delimiter of line 35, a spreadsheet a single one.                    *)
(***************************************************************************)
Delimiters == <<",", ";", "\t">>

Attempt(raises, table) == [raises |-> raises, table |-> table]
File(name, reads) == [name |-> name, reads |-> reads]
NoFile == File("none", <<>>)

\* the whole of each line in a single column: what read_csv returns when
\* the delimiter does not occur in the file
Unsplit(t) ==
    RawTable(<< <<"l","i","n","e">> >>,
             [r \in 1..Len(t.rows) |-> << StrCell(<<"l","i","n","e">>) >>])

(***************************************************************************)
(* Reading the file (lines 27-51).                                          *)
(***************************************************************************)
\* line 27 false: the warning of line 189
NoUpload ==
    /\ pc = "upload" /\ fl.name = "none"
    /\ pc' = "waiting"
    /\ UNCHANGED <<fl, delimiter, detected, df, columns, cols, sels,
                   filtered_df, dates, kpis, charts, csv>>

\* lines 32-35: a delimited file enters the loop
OpenDelimited ==
    /\ pc = "upload" /\ fl.name = "csv"
    /\ detected' = FALSE
    /\ delimiter' = 1
    /\ pc' = "delimiters"
    /\ UNCHANGED <<fl, df, columns, cols, sels, filtered_df, dates, kpis,
                   charts, csv>>

\* line 39
Qualifies(read) == ~read.raises /\ Len(read.table.columns) > 1

\* the loop of lines 35-43 without the `break` of line 41
LoopStepNoBreak(qualified) ==
    /\ detected' = (detected \/ qualified)
    /\ IF delimiter < Len(Delimiters)
       THEN pc' = "delimiters" /\ delimiter' = delimiter + 1
       ELSE pc' = "read" /\ delimiter' = delimiter

\* after one pass of the loop body: `break`, the next delimiter, or the end
\* of the list (the loop variable then keeps its last value)
LoopStep(qualified) ==
    IF qualified THEN /\ detected' = TRUE
                      /\ pc' = "read"
                      /\ delimiter' = delimiter
    ELSE /\ detected' = detected
         /\ IF delimiter < Len(Delimiters)
            THEN pc' = "delimiters" /\ delimiter' = delimiter + 1
            ELSE pc' = "read" /\ delimiter' = delimiter

\* lines 36-43: one pass of the loop
TryDelimiter ==
    /\ pc = "delimiters"
    /\ LET read == fl.reads[delimiter]
       IN /\ df' = IF read.raises THEN df ELSE read.table
          /\ LoopStep(Qualifies(read))
    /\ UNCHANGED <<fl, columns, cols, sels, filtered_df, dates, kpis, charts, csv>>

\* lines 44-46: no delimiter qualified; st.stop() ends the run
UndetectedDelimiter ==
    /\ pc = "read" /\ ~detected
    /\ pc' = "stopped"
    /\ UNCHANGED <<fl, delimiter, detected, df, columns, cols, sels,
                   filtered_df, dates, kpis, charts, csv>>

\* line 44 false: on to line 54
DelimiterDetected ==
    /\ pc = "read" /\ detected
    /\ pc' = "detect"
    /\ UNCHANGED <<fl, delimiter, detected, df, columns, cols, sels,
                   filtered_df, dates, kpis, charts, csv>>

\* line 48
ReadExcel ==
    /\ pc = "upload" /\ fl.name = "xlsx"
    /\ ~fl.reads[1].raises
    /\ df' = fl.reads[1].table
    /\ pc' = "detect"
    /\ UNCHANGED <<fl, delimiter, detected, columns, cols, sels, filtered_df,
                   dates, kpis, charts, csv>>

\* lines 49-51: the reader raises; st.stop() ends the run
ReadExcelFails ==
    /\ pc = "upload" /\ fl.name = "xlsx"
    /\ fl.reads[1].raises
    /\ pc' = "stopped"
    /\ UNCHANGED <<fl, delimiter, detected, df, columns, cols, sels,
                   filtered_df, dates, kpis, charts, csv>>

(***************************************************************************)
(* Detecting the key columns (lines 54-66).                                 *)
(***************************************************************************)
Resolve(labels) ==
    [role \in 1..Len(RoleNames) |-> find_best_column(RoleNames[role], labels)]

DetectColumns ==
    /\ pc = "detect"
    /\ columns' = df.columns
    /\ LET found == Resolve(df.columns)
       IN /\ found[1] # ValueError
          /\ date_col' = found[1]
          /\ sales_col' = found[2]
          /\ profit_col' = found[3]
          /\ product_col' = found[4]
          /\ region_col' = found[5]
          /\ state_col' = found[6]
          /\ city_col' = found[7]
          /\ retailer_col' = found[8]
          /\ quantity_col' = found[9]
    /\ pc' = "clean"
    /\ UNCHANGED <<fl, delimiter, detected, df, sels, filtered_df, dates, kpis,
                   charts, csv>>

\* line 56 raises: max() of line 16 was given an empty dict.  Nothing
\* catches it and the run ends there.
DetectColumnsRaises ==
    /\ pc = "detect"
    /\ columns' = df.columns
    /\ find_best_column(DateNames, df.columns) = ValueError
    /\ pc' = "crashed"
    /\ UNCHANGED <<fl, delimiter, detected, df, cols, sels, filtered_df, dates,
                   kpis, charts, csv>>

(***************************************************************************)
(* Data cleaning (lines 69-76).                                             *)
(***************************************************************************)
\* line 70
CleanDateColumn(t, col) ==
    IF Bound(col) THEN MapColumn(t, col, "datetime64", CleanDate) ELSE t

RECURSIVE CleanNumericColumns(_, _, _)
\* the loop of lines 73-76 over numeric_cols
CleanNumericColumns(t, numeric_cols, i) ==
    IF i > Len(numeric_cols) THEN t
    ELSE CleanNumericColumns(
             IF Bound(numeric_cols[i])
             THEN MapColumn(t, numeric_cols[i], "float64", CleanNumber)
             ELSE t,
             numeric_cols, i + 1)

CleanTable(t, dcol, numeric_cols) ==
    CleanNumericColumns(CleanDateColumn(t, dcol), numeric_cols, 1)

DataCleaning ==
    /\ pc = "clean"
    /\ df' = CleanTable(df, date_col, <<sales_col, profit_col, quantity_col>>)
    /\ pc' = "sidebar"
    /\ UNCHANGED <<fl, delimiter, detected, columns, cols, sels, filtered_df,
                   dates, kpis, charts, csv>>

(***************************************************************************)
(* Sidebar filters (lines 79-103).                                          *)
(***************************************************************************)
\* df[col].unique(): the options of a multiselect
Unique(t, col) == {Column(t, col)[r] : r \in 1..Len(t.rows)}

\* the selections a user can make in the multiselect of a role
Options(t, col) == IF Bound(col) THEN SUBSET Unique(t, col) ELSE {{}}

\* line 98 without its test of the selection: `if region_col:`
IsinAlways(t, col, selection) ==
    IF Bound(col)
    THEN Where(t, LAMBDA row : row[ColumnIndex(t, col)] \in selection)
    ELSE t

\* `if region and region_col:` and the row mask of line 99
Isin(t, col, selection) ==
    IF selection # {} /\ Bound(col)
    THEN Where(t, LAMBDA row : row[ColumnIndex(t, col)] \in selection)
    ELSE t

\* lines 96-103
DimensionFilter(t, rcol, rsel, scol, ssel, ccol, csel) ==
    Isin(Isin(Isin(t, rcol, rsel), scol, ssel), ccol, csel)

SidebarFilters ==
    /\ pc = "sidebar"
    /\ \E rsel \in Options(df, region_col),
          ssel \in Options(df, state_col),
          csel \in Options(df, city_col) :
            /\ region' = rsel
            /\ state' = ssel
            /\ city' = csel
            /\ filtered_df' = DimensionFilter(df, region_col, rsel,
                                              state_col, ssel, city_col, csel)
    /\ pc' = "dates"
    /\ UNCHANGED <<fl, delimiter, detected, df, columns, cols, dates, kpis,
                   charts, csv>>

(***************************************************************************)
(* Date filter (lines 106-117).                                             *)
(***************************************************************************)
Timestamps(t, col) == {c \in Unique(t, col) : c.t = "ts"}

\* Series.min() and Series.max() of a datetime column: NaT is skipped, and
\* NaT is the answer when nothing is left
MinDate(t, col) ==
    LET ts == Timestamps(t, col)
    IN IF ts = {} THEN NaT ELSE CHOOSE c \in ts : \A d \in ts : c.n <= d.n
MaxDate(t, col) ==
    LET ts == Timestamps(t, col)
    IN IF ts = {} THEN NaT ELSE CHOOSE c \in ts : \A d \in ts : c.n >= d.n

\* pd.to_datetime(<a date>): st.date_input returns a calendar date, which
\* becomes the midnight that starts it
Midnight(c) == TsCell(c.n - MinuteOfDay(c.n))

\* what a date picker can return: its default, or a day the user chose
Pickable(t, col, default) == {Midnight(c) : c \in Timestamps(t, col) \cup {default}}

\* the row mask of line 117; a comparison with NaT is false
InRange(c, lo, hi) ==
    /\ c.t = "ts" /\ lo.t = "ts" /\ hi.t = "ts"
    /\ c.n >= lo.n /\ c.n <= hi.n

DateRange(t, col, lo, hi) ==
    Where(t, LAMBDA row : InRange(row[ColumnIndex(t, col)], lo, hi))

\* lines 107-110 with no date column: nothing is filtered
NoDateFilter ==
    /\ pc = "dates" /\ ~Bound(date_col)
    /\ startDate' = None /\ endDate' = None
    /\ UNCHANGED <<date1, date2, filtered_df>>
    /\ pc' = "kpis"
    /\ UNCHANGED <<fl, delimiter, detected, df, columns, cols, sels, kpis,
                   charts, csv>>

\* lines 107-117 with a date column that holds a timestamp
DateFilter ==
    /\ pc = "dates" /\ Bound(date_col)
    /\ DType(filtered_df, date_col) = "datetime64"
    /\ Timestamps(filtered_df, date_col) # {}
    /\ startDate' = MinDate(filtered_df, date_col)
    /\ endDate' = MaxDate(filtered_df, date_col)
    /\ \E d1 \in Pickable(df, date_col, MinDate(filtered_df, date_col)),
          d2 \in Pickable(df, date_col, MaxDate(filtered_df, date_col)) :
            /\ date1' = d1
            /\ date2' = d2
            /\ filtered_df' = DateRange(filtered_df, date_col, d1, d2)
    /\ pc' = "kpis"
    /\ UNCHANGED <<fl, delimiter, detected, df, columns, cols, sels, kpis,
                   charts, csv>>

\* lines 107-117 with a date column that holds no timestamp: startDate and
\* endDate are NaT.  What st.date_input makes of a NaT default is the
\* widget's business; should it hand NaT back, no row passes line 117.
DateFilterNaT ==
    /\ pc = "dates" /\ Bound(date_col)
    /\ DType(filtered_df, date_col) = "datetime64"
    /\ Timestamps(filtered_df, date_col) = {}
    /\ startDate' = NaT /\ endDate' = NaT
    /\ date1' = NaT /\ date2' = NaT
    /\ filtered_df' = DateRange(filtered_df, date_col, NaT, NaT)
    /\ pc' = "kpis"
    /\ UNCHANGED <<fl, delimiter, detected, df, columns, cols, sels, kpis,
                   charts, csv>>

\* ... or the widget rejects the NaT default (line 112) and the run ends
DateInputNaTRaises ==
    /\ pc = "dates" /\ Bound(date_col)
    /\ DType(filtered_df, date_col) = "datetime64"
    /\ Timestamps(filtered_df, date_col) = {}
    /\ startDate' = NaT /\ endDate' = NaT
    /\ pc' = "crashed"
    /\ UNCHANGED <<date1, date2, filtered_df>>
    /\ UNCHANGED <<fl, delimiter, detected, df, columns, cols, sels, kpis,
                   charts, csv>>

\* lines 107-112 with a date column that the numeric cleaning re-typed:
\* startDate is a float, st.date_input takes dates only, and the run ends
DateInputRaises ==
    /\ pc = "dates" /\ Bound(date_col)
    /\ DType(filtered_df, date_col) # "datetime64"
    /\ LET nums == Column(filtered_df, date_col)
       IN /\ startDate' = IF nums = <<>> THEN NaN
                          ELSE CHOOSE c \in Unique(filtered_df, date_col) :
                                 \A d \in Unique(filtered_df, date_col) : c.n <= d.n
          /\ endDate' = IF nums = <<>> THEN NaN
                        ELSE CHOOSE c \in Unique(filtered_df, date_col) :
                               \A d \in Unique(filtered_df, date_col) : c.n >= d.n
    /\ pc' = "crashed"
    /\ UNCHANGED <<date1, date2, filtered_df>>
    /\ UNCHANGED <<fl, delimiter, detected, df, columns, cols, sels, kpis,
                   charts, csv>>

(***************************************************************************)
(* KPIs (lines 120-129).                                                    *)
(***************************************************************************)
RECURSIVE SumCells(_)
\* Series.sum() of a numeric column
SumCells(cells) == IF cells = <<>> THEN 0 ELSE Head(cells).n + SumCells(Tail(cells))

\* lines 120-122 summing df for filtered_df
TotalOfUnfiltered(t, col) == IF Bound(col) THEN SumCells(Column(df, col)) ELSE 0

Total(t, col) == IF Bound(col) THEN SumCells(Column(t, col)) ELSE 0

KPIs ==
    /\ pc = "kpis"
    /\ total_sales' = Total(filtered_df, sales_col)
    /\ total_profit' = Total(filtered_df, profit_col)
    /\ total_units' = Total(filtered_df, quantity_col)
    /\ total_orders' = Len(filtered_df.rows)
    /\ pc' = "charts"
    /\ UNCHANGED <<fl, delimiter, detected, df, columns, cols, sels,
                   filtered_df, dates, charts, csv>>

(***************************************************************************)
(* Visualizations (lines 134-177).                                          *)
(***************************************************************************)
\* the keys of a groupby: the values of the column, missing ones dropped
GroupKeys(t, col) == {c \in Unique(t, col) : c.t \notin {"nan", "nat"}}

\* df.groupby(by, as_index=False)[value].sum(), as the set of its rows
GroupSum(t, by, value) ==
    {<<k, SumCells(Column(Where(t, LAMBDA row : row[ColumnIndex(t, by)] = k), value))>> :
        k \in GroupKeys(t, by)}

\* df.groupby(by, as_index=False).agg({a: "sum", b: "sum"})
GroupSum2(t, by, a, b) ==
    {<<k, SumCells(Column(Where(t, LAMBDA row : row[ColumnIndex(t, by)] = k), a)),
          SumCells(Column(Where(t, LAMBDA row : row[ColumnIndex(t, by)] = k), b))>> :
        k \in GroupKeys(t, by)}

\* the columns of a frame that a figure reads, row by row
Project(t, labels) ==
    {[k \in 1..Len(labels) |-> t.rows[r][ColumnIndex(t, labels[k])]] :
        r \in 1..Len(t.rows)}

Month_Year == <<"M","o","n","t","h","_","Y","e","a","r">>

\* .dt.to_period("M").astype(str) on one cell (line 143)
MonthYear(c) ==
    IF c.t = "ts"
    THEN StrCell(Pad(NatText(YearOf(c.n)), 4) \o <<"-">> \o Pad(NatText(MonthOf(c.n)), 2))
    ELSE StrCell(<<"N","a","T">>)

\* line 143: the frame gains (or overwrites) the column Month_Year
WithMonthYear(t, dcol) ==
    LET d == Column(t, dcol)
    IN SetColumn(t, Month_Year, "object", [r \in 1..Len(d) |-> MonthYear(d[r])])

\* lines 141-143: the frame after the "Sales Over Time" block
AfterTimeChart(t, dcol, scol) ==
    IF Bound(dcol) /\ Bound(scol) THEN WithMonthYear(t, dcol) ELSE t

\* the figures drawn, each with the data handed to it
Figures(t, t2) ==
    LET fig(on, name, data) == IF on THEN {<<name, data>>} ELSE {}
    IN   fig(Bound(retailer_col) /\ Bound(sales_col), "fig1",
             GroupSum(t, retailer_col, sales_col))
    \cup fig(Bound(date_col) /\ Bound(sales_col), "fig2",
             GroupSum(t2, Month_Year, sales_col))
    \cup fig(Bound(region_col) /\ Bound(city_col) /\ Bound(sales_col), "fig3",
             Project(t2, <<region_col, city_col, sales_col>>))
    \cup fig(Bound(state_col) /\ Bound(sales_col) /\ Bound(quantity_col), "fig4",
             GroupSum2(t2, state_col, sales_col, quantity_col))
    \cup fig(Bound(retailer_col) /\ Bound(sales_col), "fig5",
             Project(t2, <<retailer_col, sales_col>>))
    \cup fig(Bound(product_col) /\ Bound(sales_col), "fig6",
             GroupSum(t2, product_col, sales_col))

Visualizations ==
    /\ pc = "charts"
    /\ LET after == AfterTimeChart(filtered_df, date_col, sales_col)
       IN /\ filtered_df' = after
          /\ charts' = Figures(filtered_df, after)
    /\ pc' = "export"
    /\ UNCHANGED <<fl, delimiter, detected, df, columns, cols, sels, dates,
                   kpis, csv>>

(***************************************************************************)
(* Download and view (lines 180-186).                                       *)
(***************************************************************************)
\* a cell as to_csv writes it: a missing value is the empty text
CsvText(c) ==
    CASE c.t = "str" -> c.s
      [] c.t = "num" -> FormatNumber(c.n)
      [] c.t = "ts" -> FormatTs(c.n)
      [] OTHER -> <<>>

\* to_csv(index=False): the header line and the lines of the rows, each the
\* tuple of its fields
to_csv(t) ==
    [header |-> t.columns,
     lines |-> [r \in 1..Len(t.rows) |->
                   [k \in 1..Len(t.columns) |-> CsvText(t.rows[r][k])]]]

Export ==
    /\ pc = "export"
    /\ csv' = to_csv(filtered_df)
    /\ pc' = "done"
    /\ UNCHANGED <<fl, delimiter, detected, df, columns, cols, sels,
                   filtered_df, dates, kpis, charts>>

(***************************************************************************)
(* The uploads of the model.                                                *)
(***************************************************************************)
h_Date == <<"D","a","t","e">>
h_Sales == <<"S","a","l","e","s">>
h_sales == <<"s","a","l","e","s">>
h_Region == <<"R","e","g","i","o","n">>
h_State == <<"S","t","a","t","e">>
h_City == <<"C","i","t","y">>
h_Retailer == <<"R","e","t","a","i","l","e","r">>
h_Product == <<"P","r","o","d","u","c","t">>
h_Regx == <<"R","e","g","x">>
h_Widget == <<"W","i","d","g","e","t">>
h_SaleDate == <<"S","a","l","e","D","a","t","e">>
h_UnitSales == <<"U","n","i","t","S","a","l","e","s">>

\* the header rows of the uploaded tables
HeaderLists ==
    { <<>>,
      <<h_Sales>>,
      <<h_Region, h_Sales>>,
      <<h_Date, h_Sales>>,
      <<h_Region, h_Date>>,
      <<h_State, h_City>>,
      <<h_Retailer, h_Sales>>,
      <<h_Product, h_UnitSales>>,
      <<h_SaleDate, h_Region>>,
      <<h_Widget, h_Regx>> }

c_Day2 == StrCell(<<"2","0","2","3","-","0","1","-","0","2">>)
c_Day3Morning == StrCell(<<"2","0","2","3","-","0","1","-","0","3"," ","1","0",":","3","0">>)
c_Amount == StrCell(<<"$","1",",","2","3","4",".","5","0">>)

\* the cells of the uploaded tables: a date, a later date with a time of
\* day, and an amount (which is no date, as the dates are no amounts)
CellPool == {c_Day2, c_Day3Morning, c_Amount}

\* the tables with a given header row and at most n rows
TablesOf(labels, pool, n) ==
    {RawTable(labels, rows) :
        rows \in UNION {[1..m -> [1..Len(labels) -> pool]] :
                           m \in 0..(IF labels = <<>> THEN 0 ELSE n)}}

Tables == UNION {TablesOf(labels, CellPool, MaxRows) : labels \in HeaderLists}

Raises == Attempt(TRUE, EmptyTable)

\* what one read_csv of a file holding table t can give: an error, the
\* lines unsplit, or (when t has several columns) t itself
CsvReads(t) ==
    {Raises, Attempt(FALSE, Unsplit(t))}
    \cup (IF Len(t.columns) > 1 THEN {Attempt(FALSE, t)} ELSE {})

\* the files that hold table t: every outcome of the three reads for a table
\* without rows; a spreadsheet otherwise
FilesOf(t) ==
    {File("xlsx", <<Attempt(FALSE, t)>>)}
    \cup (IF t.rows = <<>>
          THEN {File("xlsx", <<Raises>>)}
               \cup {File("csv", reads) : reads \in [1..Len(Delimiters) -> CsvReads(t)]}
          ELSE {})

Uploads == {NoFile} \cup UNION {FilesOf(t) : t \in Tables}

\* the script's variables before their first assignment
Unassigned ==
    /\ delimiter = 0 /\ detected = FALSE
    /\ columns = <<>>
    /\ date_col = None /\ sales_col = None /\ profit_col = None
    /\ product_col = None /\ region_col = None /\ state_col = None
    /\ city_col = None /\ retailer_col = None /\ quantity_col = None
    /\ region = {} /\ state = {} /\ city = {}
    /\ filtered_df = EmptyTable
    /\ startDate = None /\ endDate = None /\ date1 = None /\ date2 = None
    /\ total_sales = 0 /\ total_profit = 0 /\ total_units = 0 /\ total_orders = 0
    /\ charts = {}
    /\ csv = to_csv(EmptyTable)

Init ==
    /\ pc = "upload"
    /\ fl \in Uploads
    /\ df = EmptyTable
    /\ Unassigned

Next ==
    \/ NoUpload
    \/ OpenDelimited
    \/ TryDelimiter
    \/ UndetectedDelimiter
    \/ DelimiterDetected
    \/ ReadExcel
    \/ ReadExcelFails
    \/ DetectColumns
    \/ DetectColumnsRaises
    \/ DataCleaning
    \/ SidebarFilters
    \/ NoDateFilter
    \/ DateFilter
    \/ DateFilterNaT
    \/ DateInputNaTRaises
    \/ DateInputRaises
    \/ KPIs
    \/ Visualizations
    \/ Export

Spec == Init /\ [][Next]_vars

(***************************************************************************)
(* The column resolver alone: a run that has just read a table, over every  *)
(* header row of distinct labels.                                           *)
(***************************************************************************)
HeaderPool ==
    {h_Sales, h_sales, h_Region, h_Regx, h_Widget, h_SaleDate, h_Date, h_City}

\* the tuples of at most n distinct members of S
DistinctSeqs(S, n) ==
    {q \in UNION {[1..m -> S] : m \in 0..n} :
        \A i, j \in 1..Len(q) : q[i] = q[j] => i = j}

Spreadsheet(t) == File("xlsx", <<Attempt(FALSE, t)>>)

InitResolver ==
    /\ pc = "detect"
    /\ \E labels \in DistinctSeqs(HeaderPool, MaxHeaders) :
          /\ fl = Spreadsheet(RawTable(labels, <<>>))
          /\ df = RawTable(labels, <<>>)
    /\ Unassigned

NextResolver == DetectColumns \/ DetectColumnsRaises

SpecResolver == InitResolver /\ [][NextResolver]_vars

(***************************************************************************)
(* The data cleaner alone: a run that has just resolved the columns of a    *)
(* one-column table, over a wider choice of cells.                          *)
(***************************************************************************)
CleanHeaderLists == {<<h_Sales>>, <<h_UnitSales>>, <<h_SaleDate>>}

CleanCellPool ==
    { NaN,
      StrCell(<<>>),
      StrCell(<<"a","b","c">>),
      StrCell(<<" ","3"," ">>),
      StrCell(<<"1","2">>),
      StrCell(<<"7",".","5">>),
      StrCell(<<"1","$","2">>),
      c_Amount,
      c_Day2 }

InitClean ==
    /\ pc = "clean"
    /\ \E t \in UNION {TablesOf(labels, CleanCellPool, MaxCells) :
                          labels \in CleanHeaderLists} :
          /\ fl = Spreadsheet(t)
          /\ df = t
          /\ columns = t.columns
          /\ date_col = Resolve(t.columns)[1]
          /\ sales_col = Resolve(t.columns)[2]
          /\ profit_col = Resolve(t.columns)[3]
          /\ product_col = Resolve(t.columns)[4]
          /\ region_col = Resolve(t.columns)[5]
          /\ state_col = Resolve(t.columns)[6]
          /\ city_col = Resolve(t.columns)[7]
          /\ retailer_col = Resolve(t.columns)[8]
          /\ quantity_col = Resolve(t.columns)[9]
    /\ delimiter = 0 /\ detected = FALSE
    /\ region = {} /\ state = {} /\ city = {}
    /\ filtered_df = EmptyTable
    /\ startDate = None /\ endDate = None /\ date1 = None /\ date2 = None
    /\ total_sales = 0 /\ total_profit = 0 /\ total_units = 0 /\ total_orders = 0
    /\ charts = {}
    /\ csv = to_csv(EmptyTable)

NextClean == DataCleaning

SpecClean == InitClean /\ [][NextClean]_vars

(***************************************************************************)
(* Properties.                                                              *)
(***************************************************************************)
Roles == 1..Len(RoleNames)
Labels == 1..Len(columns)

\* the similarity of the i-th header to the candidates of a role
ScoreOf(role, i) == score(columns[i], RoleNames[role])
\* no header scores higher than the i-th
IsBest(role, i) == \A j \in Labels : ~ScoreGt(ScoreOf(role, j), ScoreOf(role, i))
\* ... and every header before it scores lower
IsFirstBest(role, i) ==
    IsBest(role, i) /\ \A j \in 1..(i - 1) : ScoreGt(ScoreOf(role, i), ScoreOf(role, j))
OverThreshold(role, i) == ScoreAbove(ScoreOf(role, i), Threshold)

\* C1, as stated: once the columns of a non-empty header list are resolved,
\* a role is bound to a header exactly when that header attains the highest
\* score and the score is above 60; it is unbound exactly when no header
\* scores above 60; a binding is always one of the headers.
C1_AcceptanceRule ==
    (pc = "clean" /\ columns # <<>>) =>
        \A role \in Roles :
            /\ \A i \in Labels :
                  cols[role] = columns[i] <=> (IsBest(role, i) /\ OverThreshold(role, i))
            /\ cols[role] = None <=> \A i \in Labels : ~OverThreshold(role, i)
            /\ cols[role] \in {columns[i] : i \in Labels} \cup {None}

\* C1, amended: a role is bound to a header exactly when that header is the
\* first, in the order of the header list, to attain the highest score and
\* the score is above 60; it is unbound exactly when no header scores above
\* 60 (a best score of exactly 60 included); a binding is one of the headers.
C1_FirstBestAcceptance ==
    (pc = "clean" /\ columns # <<>>) =>
        \A role \in Roles :
            /\ \A i \in Labels :
                  cols[role] = columns[i] <=> (IsFirstBest(role, i) /\ OverThreshold(role, i))
            /\ cols[role] = None <=> \A i \in Labels : ~OverThreshold(role, i)
            /\ cols[role] \in {columns[i] : i \in Labels} \cup {None}

\* two headers tie for the highest score of a role, and the first is bound
C1_TieWitness ==
    /\ pc = "clean"
    /\ \E role \in Roles : \E i, j \in Labels :
          /\ i < j
          /\ ScoreEq(ScoreOf(role, i), ScoreOf(role, j))
          /\ IsBest(role, i)
          /\ cols[role] = columns[i]

\* C2: when the header list is empty the resolver ends normally, with every
\* one of the nine roles unbound.
C2_EmptyHeaderListUnbound ==
    (pc \in {"clean", "crashed"} /\ columns = <<>>) =>
        (pc = "clean" /\ \A role \in Roles : cols[role] = None)

\* the cell of a row of df in the column bound to a role
CellOf(row, col) == row[ColumnIndex(df, col)]

DimensionOk(row, col, selection) ==
    (Bound(col) /\ selection # {}) => CellOf(row, col) \in selection

DateOk(row) ==
    Bound(date_col) =>
        /\ CellOf(row, date_col).t = "ts"
        /\ date1.t = "ts" /\ date2.t = "ts"
        /\ date1.n <= CellOf(row, date_col).n
        /\ CellOf(row, date_col).n <= date2.n

RowPasses(row) ==
    /\ DimensionOk(row, region_col, region)
    /\ DimensionOk(row, state_col, state)
    /\ DimensionOk(row, city_col, city)
    /\ DateOk(row)

\* C3: after the filters, the filtered table holds exactly the rows of the
\* cleaned table whose value is in the selection of every bound dimension
\* with a non-empty selection and, when the date role is bound, whose date
\* is not null and lies in [date1, date2], both ends included.
C3_FilterResult ==
    pc = "kpis" =>
        /\ filtered_df.rows = SelectSeq(df.rows, RowPasses)
        /\ filtered_df.columns = df.columns

\* a run with a date column and a region selection that keeps one row and
\* drops another
C3_Witness ==
    /\ pc = "kpis"
    /\ Bound(date_col) /\ Bound(region_col) /\ region # {}
    /\ filtered_df.rows # <<>>
    /\ \E r \in 1..Len(df.rows) : CellOf(df.rows[r], region_col) \notin region

\* the delimiters, by index, whose read qualifies
Qualifying == {i \in 1..Len(Delimiters) : Qualifies(fl.reads[i])}
FirstQualifying == CHOOSE i \in Qualifying : \A j \in Qualifying : i <= j

AfterReading ==
    {"detect", "clean", "sidebar", "dates", "kpis", "charts", "export", "done",
     "crashed"}

\* C4: for a delimited file, a run that gets past the reading used the
\* first delimiter, in the order comma, semicolon, tab, whose read raised no
\* error and gave more than one column, and works on that read's table; when
\* no delimiter qualifies the run stops at the error and no later stage
\* assigns anything.
C4_DelimiterProtocol ==
    fl.name = "csv" =>
        /\ pc \in AfterReading =>
              /\ Qualifying # {}
              /\ delimiter = FirstQualifying
              /\ df.columns = fl.reads[FirstQualifying].table.columns
              /\ pc = "detect" => df = fl.reads[FirstQualifying].table
        /\ Qualifying = {} => pc \in {"upload", "delimiters", "read", "stopped"}
        /\ pc = "stopped" =>
              /\ Qualifying = {}
              /\ columns = <<>> /\ \A role \in Roles : cols[role] = None
              /\ filtered_df = EmptyTable /\ charts = {}
              /\ csv = to_csv(EmptyTable)

\* the second delimiter was taken although the third qualifies too, the
\* first having failed
C4_Witness ==
    /\ fl.name = "csv" /\ pc = "detect"
    /\ delimiter = 2
    /\ ~Qualifies(fl.reads[1]) /\ Qualifies(fl.reads[3])

\* the rows of df, by index, that pass the filters
Passing == {r \in 1..Len(df.rows) : RowPasses(df.rows[r])}

RECURSIVE SumOver(_, _)
\* the sum of a column of df over a set of its rows
SumOver(rows, col) ==
    IF rows = {} THEN 0
    ELSE LET r == CHOOSE x \in rows : TRUE
         IN CellOf(df.rows[r], col).n + SumOver(rows \ {r}, col)

ExpectedTotal(col) == IF Bound(col) THEN SumOver(Passing, col) ELSE 0

\* C5: total sales, profit and units are each the sum of the bound, cleaned
\* column over exactly the rows that pass the filters, and 0 when the role
\* is unbound or no row passes; total orders is the number of those rows.
C5_ScalarKPIs ==
    pc \in {"charts", "export", "done"} =>
        /\ total_sales = ExpectedTotal(sales_col)
        /\ total_profit = ExpectedTotal(profit_col)
        /\ total_units = ExpectedTotal(quantity_col)
        /\ total_orders = Cardinality(Passing)
        /\ (Passing = {} \/ ~Bound(sales_col)) => total_sales = 0
        /\ (Passing = {} \/ ~Bound(profit_col)) => total_profit = 0
        /\ (Passing = {} \/ ~Bound(quantity_col)) => total_units = 0

\* a run filtered to one region, whose total sales are those of that region
\* and less than the sales of the whole table
C5_Witness ==
    /\ pc = "done"
    /\ Bound(region_col) /\ Bound(sales_col) /\ Cardinality(region) = 1
    /\ total_sales > 0
    /\ total_sales < SumOver(1..Len(df.rows), sales_col)

\* the figures whose roles are all bound
ExpectedFigures ==
    {f \in {"fig1", "fig2", "fig3", "fig4", "fig5", "fig6"} :
        CASE f = "fig1" -> Bound(retailer_col) /\ Bound(sales_col)
          [] f = "fig2" -> Bound(date_col) /\ Bound(sales_col)
          [] f = "fig3" -> Bound(region_col) /\ Bound(city_col) /\ Bound(sales_col)
          [] f = "fig4" -> Bound(state_col) /\ Bound(sales_col) /\ Bound(quantity_col)
          [] f = "fig5" -> Bound(retailer_col) /\ Bound(sales_col)
          [] f = "fig6" -> Bound(product_col) /\ Bound(sales_col)}

\* C6: whatever roles are bound, a run that read its file never ends in an
\* error, and the figures drawn are exactly those whose roles are all bound.
C6_GracefulDegradation ==
    /\ pc # "crashed"
    /\ pc \in {"export", "done"} => {f[1] : f \in charts} = ExpectedFigures

NumericCols == {c \in {sales_col, profit_col, quantity_col} : Bound(c)}

\* the cell of the uploaded table that a cell of df comes from
RawCell(r, col) == fl.reads[1].table.rows[r][ColumnIndex(df, col)]

\* C7: after cleaning, every cell of a column bound to sales, profit or
\* quantity is a number; it is 0 when the uploaded cell was missing, empty
\* or no number once ',' and '$' are removed and the blanks trimmed;
\* "$1,234.50" has become 1234.50 (in a column that is not the date column
\* too); and cleaning the cell once more leaves it as it is.
C7_NumericCleaning ==
    pc = "sidebar" =>
        \A col \in NumericCols : \A r \in 1..Len(df.rows) :
            LET c == CellOf(df.rows[r], col)
                raw == RawCell(r, col)
            IN /\ c.t = "num"
               /\ raw \in {NaN, StrCell(<<>>), StrCell(<<"a","b","c">>)} => c.n = 0
               /\ to_numeric(CleanText(raw)).t = "nan" => c.n = 0
               /\ (raw = c_Amount /\ col # date_col) => c.n = 123450
               /\ CleanNumber(c) = c

\* one column bound to two numeric roles, so cleaned twice, with a missing
\* cell and an amount
C7_Witness ==
    /\ pc = "sidebar"
    /\ Bound(sales_col) /\ sales_col = quantity_col
    /\ \E r \in 1..Len(df.rows) : RawCell(r, sales_col) = NaN
    /\ \E r \in 1..Len(df.rows) : CellOf(df.rows[r], sales_col).n = 123450

\* C8: after cleaning, every cell of the column bound to the date role is a
\* timestamp or NaT, and every cell of a column bound to sales, profit or
\* quantity is a number, also when two roles share a header.
C8_TypedColumns ==
    pc \in {"sidebar", "dates"} =>
        /\ Bound(date_col) =>
              \A r \in 1..Len(df.rows) : CellOf(df.rows[r], date_col).t \in {"ts", "nat"}
        /\ \A col \in NumericCols :
              \A r \in 1..Len(df.rows) : CellOf(df.rows[r], col).t = "num"

\* C9: with both date pickers left at their defaults, every row of the
\* dimension-filtered table that has a date survives the date filter.
C9_DefaultIntervalKeepsAll ==
    (/\ pc = "kpis" /\ Bound(date_col)
     /\ startDate.t = "ts"
     /\ date1 = Midnight(startDate) /\ date2 = Midnight(endDate)) =>
        filtered_df.rows =
            SelectSeq(DimensionFilter(df, region_col, region, state_col, state,
                                      city_col, city).rows,
                      LAMBDA row : CellOf(row, date_col).t = "ts")

\* C10, for an export that holds a row: the header row of the exported CSV,
\* and of the table shown, is the header row of the table that was read.
C10_HeadersFrozen ==
    (pc = "done" /\ filtered_df.rows # <<>>) =>
        (csv.header = columns /\ filtered_df.columns = columns)

====
